---- MODULE Spec2Model ----
(***************************************************************************)
(* nuber-eats-backend: the users service (registration, login, profile     *)
(* update, email verification), the JWT middleware and the token service,  *)
(* as a state machine over the "users" and "verification" tables.          *)
(* Every request is one process; its steps are the await points of the     *)
(* handlers, so concurrent requests interleave exactly there.              *)
(***************************************************************************)
EXTENDS Integers, FiniteSets, Sequences, Bags, TLC

VARIABLES users, verifs, nextId, nextCode, req, registered, consumed,
          decl, allowedEnvs, allowedRoles

\* what the decorators of the resolver class leave at load time: the guards
\* declared on each operation and the static allow-lists of the guard classes
statics == <<decl, allowedEnvs, allowedRoles>>

vars == <<users, verifs, nextId, nextCode, req, registered, consumed, statics>>

----------------------------------------------------------------------------
(* Bounds of the model *)

\* number of requests the server receives in one run
MaxReq == 2

\* number of requests received in a run that tries resolver classes with
\* other guard declarations
MaxGuardReq == 3

----------------------------------------------------------------------------
(* Values *)

SecretKey == "SECRET_KEY"
OtherKey == "other secret"

Email1 == "test1@test.com"
Email2 == "test2@test.com"
EmailNew == "new@test.com"

Pw1 == "123456"
Pw2 == "654321"

NoVal == ""

\* UserRole enum
UserRole == {"client", "owner", "delivery"}

\* a password column value: the plaintext it derives from and how many times
\* bcrypt has been applied to it (0: plaintext as it arrives in a dto)
Plain(p) == [plain |-> p, n |-> 0]

NoUser == [id |-> 0, email |-> NoVal, password |-> Plain(NoVal), role |-> NoVal,
           verified |-> FALSE]

\* error messages
ErrDuplicate == "Email already registered"
ErrCredentials == "Invalid email/password"
ErrNotFound == "Could not find any entity"
ErrStorage == "some error"
ErrUnauthorized == "Unauthorized."
ErrJwt == "invalid token"
ErrForbidden == "Forbidden resource"
ErrTypeError == "Cannot read property 'role' of undefined"

----------------------------------------------------------------------------
(* Credential hasher *)

\* PasswordHelper.hashPassword: bcrypt over whatever string is given,
\* plaintext or an earlier hash
hashPassword(p) == [plain |-> p.plain, n |-> p.n + 1]

\* mutant: the comparison accepts every password
validatePassword_Always(password, passwordHashed) == TRUE

\* PasswordHelper.validatePassword: bcrypt.compare(plaintext, stored)
validatePassword(password, passwordHashed) ==
    passwordHashed = hashPassword(Plain(password))

----------------------------------------------------------------------------
(* Token service *)

NoToken == [kind |-> "none", key |-> NoVal, hasId |-> FALSE, id |-> 0]

\* JwtService.sign({id}): HS256 under the configured secret
sign(id) == [kind |-> "jwt", key |-> SecretKey, hasId |-> TRUE, id |-> id]

\* mutant: the token is decoded without checking its signature
verifyThrows_DecodeOnly(t) == t.kind # "jwt"

\* JwtService.verify: throws unless the token is well formed and signed
\* with the configured secret; otherwise returns the decoded payload
verifyThrows(t) == ~(t.kind = "jwt" /\ t.key = SecretKey)

\* mutant: the id claim of the payload is never found
decodedHasId_Never(t) == FALSE

\* typeof decoded === 'object' && 'id' in decoded
decodedHasId(t) == t.hasId

\* tokens a client may present
Tokens ==
    { sign(1), sign(3),
      [kind |-> "jwt", key |-> SecretKey, hasId |-> FALSE, id |-> 0],
      [kind |-> "jwt", key |-> OtherKey, hasId |-> TRUE, id |-> 1],
      [kind |-> "junk", key |-> NoVal, hasId |-> FALSE, id |-> 0] }

NoHeader == [present |-> FALSE, token |-> NoToken]
Bearer(t) == [present |-> TRUE, token |-> t]

Headers == {NoHeader} \cup {Bearer(t) : t \in Tokens}

\* headers tried on the operations the middleware exempts
ExemptHeaders ==
    {NoHeader, Bearer(sign(1)),
     Bearer([kind |-> "junk", key |-> NoVal, hasId |-> FALSE, id |-> 0])}

----------------------------------------------------------------------------
(* Requests *)

\* a transaction of a query runner: the writes issued through
\* queryRunner.manager wait in it until the commit
NoTx == [state |-> "none", save |-> NoUser, del |-> FALSE, released |-> FALSE]

\* one request: the operation and its arguments, the position of its
\* handler, the locals of the handler, and what it answered.
\* The last fields are history: uid and vcode, the user and the code the
\* call created; late, whether it arrived after a success on the same email
\* (createUser, loginUser) or code (verifyEmail), or with the token of a user
\* stored by then (the other operations); wrote, whether it changed a stored record; fault, whether a
\* storage step of it failed; seen, how many rows matched its first lookup;
\* auth, how the middleware's lookup ended; nexted, whether next() was called;
\* log, the stages of the pipeline after the middleware in the order they
\* ran: next(), each guard evaluated with its result, the resolver.
Blank ==
    [op |-> NoVal, pc |-> "new", hdr |-> NoHeader,
     email |-> NoVal, password |-> NoVal, role |-> NoVal, code |-> 0,
     user |-> NoUser, u |-> NoUser, vuid |-> 0, tx |-> NoTx,
     out |-> "none", ok |-> FALSE, error |-> NoVal, token |-> NoToken,
     uid |-> 0, vcode |-> 0, late |-> FALSE, wrote |-> FALSE, fault |-> FALSE,
     seen |-> 0, auth |-> "none", nexted |-> FALSE, log |-> <<>>]

\* operations the middleware lets through without a token
ExemptOps == {"IntrospectionQuery", "createUser", "loginUser", "verifyEmail"}

CreateEmails == {Email1, EmailNew}
LoginEmails == {Email1, EmailNew}
Passwords == {Pw1, Pw2}
\* codes a client may send: a seeded one, the first generated one, and one
\* that is never generated
Codes == {0, 1, 3}
UpdateEmails == {NoVal, Email2}
UpdatePasswords == {NoVal, Pw2}
UpdateRoles == {NoVal, "delivery"}

\* the requests a client may send. The arguments vary on the requests whose
\* handler reads them: those without a header on the exempt operations,
\* those with a token of a user on updateUser.
Incoming ==
    {[Blank EXCEPT !.op = "createUser", !.email = e, !.password = p,
                   !.role = "client"] :
        e \in CreateEmails, p \in Passwords}
    \cup
    {[Blank EXCEPT !.op = "loginUser", !.email = e, !.password = p] :
        e \in LoginEmails, p \in Passwords}
    \cup
    {[Blank EXCEPT !.op = "verifyEmail", !.code = c] : c \in Codes}
    \cup
    {[Blank EXCEPT !.op = "createUser", !.hdr = h, !.email = EmailNew,
                   !.password = Pw1, !.role = "delivery"] :
        h \in ExemptHeaders \ {NoHeader}}
    \cup
    {[Blank EXCEPT !.op = "loginUser", !.hdr = h, !.email = Email1,
                   !.password = Pw1] :
        h \in ExemptHeaders \ {NoHeader}}
    \cup
    {[Blank EXCEPT !.op = "verifyEmail", !.hdr = h, !.code = 1] :
        h \in ExemptHeaders \ {NoHeader}}
    \cup
    {[Blank EXCEPT !.op = "IntrospectionQuery", !.hdr = h] : h \in ExemptHeaders}
    \cup
    {[Blank EXCEPT !.op = "updateUser", !.hdr = Bearer(sign(1)), !.email = e,
                   !.password = p, !.role = ro] :
        e \in UpdateEmails, p \in UpdatePasswords, ro \in UpdateRoles}
    \cup
    {[Blank EXCEPT !.op = "updateUser", !.hdr = Bearer(sign(3)), !.email = e] :
        e \in UpdateEmails}
    \cup
    {[Blank EXCEPT !.op = "updateUser", !.hdr = h, !.role = "delivery"] :
        h \in Headers \ {Bearer(sign(1)), Bearer(sign(3))}}
    \cup
    {[Blank EXCEPT !.op = "me", !.hdr = h] : h \in Headers}
    \cup
    {[Blank EXCEPT !.op = "getUsers", !.hdr = h] : h \in ExemptHeaders}

\* a handler's answers
Returned(r, ok, error, token) ==
    [r EXCEPT !.pc = "done", !.out = "returned", !.ok = ok, !.error = error,
              !.token = token]
Rejected(r, error) ==
    [r EXCEPT !.pc = "done", !.out = "rejected", !.error = error]
Threw(r, error) ==
    [r EXCEPT !.pc = "done", !.out = "threw", !.error = error]

----------------------------------------------------------------------------
(* The tables and the requests in flight *)

Stored == {users[k] : k \in DOMAIN users}

\* mutant: the find by code does not filter on the code
ByCode_Unfiltered(c) == verifs

\* mutant: the find by id does not filter on the id
ById_Unfiltered(k) == Stored

\* rows a find by email / by id / by code may return
ByEmail(e) == {x \in Stored : x.email = e}
ById(k) == {x \in Stored : x.id = k}
ByCode(c) == {v \in verifs : v.code = c}

\* how many stored users carry email e
Matches(e) == Cardinality({k \in DOMAIN users : users[k].email = e})

\* req is the bag of the requests received so far
Reqs == BagToSet(req)

\* request r moves on to r2
Put(r, r2) == (req (-) SetToBag({r})) (+) SetToBag({r2})

----------------------------------------------------------------------------
(* Authorization guards and dispatch *)

\* process configuration: NODE_ENV
NodeEnv == "dev"

\* one guard inside @UseGuards(...): the guard class and, for EnvGuard and
\* RoleGuard, the list handed to setAllowedEnvs / setAllowedRoles
Guard(g, list) == [g |-> g, list |-> list]

\* the allow-lists written in UsersResolver
AllowedEnvs == {"dev", "sit"}
AllowedRoles == {"client", "owner"}

\* @UseGuards(...) of the resolvers of UsersResolver
UsersResolver ==
    [me |-> <<Guard("AuthGuard", {}), Guard("EnvGuard", AllowedEnvs),
              Guard("RoleGuard", AllowedRoles)>>,
     updateUser |-> <<Guard("AuthGuard", {}), Guard("EnvGuard", AllowedEnvs)>>]

\* the decorator expressions of a resolver class in the order they are
\* evaluated when the class is loaded: method by method, argument by argument
Declarations(d) == d.me \o d.updateUser

\* static setAllowedEnvs / setAllowedRoles: each call overwrites the one
\* static list of the class, so the list of the last call of guard g stays
RECURSIVE setAllowed(_, _, _)
setAllowed(ds, g, list) ==
    IF ds = <<>> THEN list
    ELSE setAllowed(Tail(ds), g, IF Head(ds).g = g THEN Head(ds).list ELSE list)

\* the guards of an operation, by class
GuardsOf(op) ==
    IF op \in DOMAIN decl THEN [i \in DOMAIN decl[op] |-> decl[op][i].g]
    ELSE <<>>

\* mutant: RoleGuard lets a request without user through
canActivate_RoleOpen(g, r) ==
    IF g = "AuthGuard" THEN (IF r.user.id # 0 THEN "pass" ELSE "deny")
    ELSE IF g = "EnvGuard" THEN (IF NodeEnv \in allowedEnvs THEN "pass" ELSE "deny")
    ELSE IF r.user.id = 0 THEN "pass"
    ELSE IF r.user.role \in allowedRoles THEN "pass" ELSE "deny"

\* canActivate of one guard: "pass", "deny" (returns false) or "throw"
\* (RoleGuard reads user.role of an undefined user)
canActivate(g, r) ==
    IF g = "AuthGuard" THEN (IF r.user.id # 0 THEN "pass" ELSE "deny")
    ELSE IF g = "EnvGuard" THEN (IF NodeEnv \in allowedEnvs THEN "pass" ELSE "deny")
    ELSE IF r.user.id = 0 THEN "throw"
    ELSE IF r.user.role \in allowedRoles THEN "pass" ELSE "deny"

\* mutant: every guard is evaluated and the last result decides
RECURSIVE runGuards_LastWins(_, _)
runGuards_LastWins(gs, r) ==
    IF gs = <<>> THEN "pass"
    ELSE IF Len(gs) = 1 THEN canActivate(Head(gs), r)
    ELSE runGuards_LastWins(Tail(gs), r)

\* the guards in declared order, stopping at the first that does not pass
RECURSIVE runGuards(_, _)
runGuards(gs, r) ==
    IF gs = <<>> THEN "pass"
    ELSE IF canActivate(Head(gs), r) # "pass" THEN canActivate(Head(gs), r)
    ELSE runGuards(Tail(gs), r)

\* the guards that were evaluated, each with its result
RECURSIVE evaluated(_, _)
evaluated(gs, r) ==
    IF gs = <<>> THEN <<>>
    ELSE <<[step |-> Head(gs), result |-> canActivate(Head(gs), r)]>>
         \o (IF canActivate(Head(gs), r) # "pass" THEN <<>>
             ELSE evaluated(Tail(gs), r))

\* the resolver, up to the first await of the service method it calls
resolve(r) ==
    IF r.op = "createUser" THEN [r EXCEPT !.pc = "cu_find"]
    ELSE IF r.op = "loginUser" THEN [r EXCEPT !.pc = "lg_find"]
    ELSE IF r.op = "verifyEmail" THEN [r EXCEPT !.pc = "ve_find"]
    ELSE IF r.op = "updateUser" THEN [r EXCEPT !.pc = "up_find"]
    ELSE IF r.op = "getUsers" THEN [r EXCEPT !.pc = "ga_find"]
    ELSE Returned(r, TRUE, NoVal, NoToken)

\* mutant: the resolver is started before the guards are asked
next_ResolverFirst(r) ==
    resolve([r EXCEPT !.nexted = TRUE,
                      !.log = <<[step |-> "next", result |-> NoVal],
                                [step |-> "resolver", result |-> NoVal]>>
                              \o evaluated(GuardsOf(r.op), r)])

\* next(): the rest of the pipeline runs inside the call, the guards of the
\* operation and then its resolver, up to the first await
next(r) ==
    IF runGuards(GuardsOf(r.op), r) = "pass"
    THEN resolve([r EXCEPT !.nexted = TRUE,
                           !.log = <<[step |-> "next", result |-> NoVal]>>
                                   \o evaluated(GuardsOf(r.op), r)
                                   \o <<[step |-> "resolver", result |-> NoVal]>>])
    ELSE Rejected([r EXCEPT !.nexted = TRUE,
                            !.log = <<[step |-> "next", result |-> NoVal]>>
                                    \o evaluated(GuardsOf(r.op), r)],
                  IF runGuards(GuardsOf(r.op), r) = "throw" THEN ErrTypeError
                  ELSE ErrForbidden)

----------------------------------------------------------------------------
(* The server at start *)

\* dbscripts/init.sql: two owners, password 123456, and their codes
InitStore ==
    /\ users = (1 :> [id |-> 1, email |-> Email1,
                      password |-> hashPassword(Plain(Pw1)),
                      role |-> "owner", verified |-> FALSE])
            @@ (2 :> [id |-> 2, email |-> Email2,
                      password |-> hashPassword(Plain(Pw1)),
                      role |-> "owner", verified |-> FALSE])
    /\ verifs = {[code |-> 1, user |-> 1], [code |-> 2, user |-> 2]}
    /\ nextId = 3
    /\ nextCode = 3
    /\ req = EmptyBag
    /\ registered = {}
    /\ consumed = {}

\* the resolver class d has been loaded: its decorators have run
Loaded(d) ==
    /\ decl = d
    /\ allowedEnvs = setAllowed(Declarations(d), "EnvGuard", {})
    /\ allowedRoles = setAllowed(Declarations(d), "RoleGuard", {})

Init == InitStore /\ Loaded(UsersResolver)

\* allow-lists a declaration may hand to EnvGuard and to RoleGuard
EnvLists == {{"dev", "sit"}, {"prod"}}
RoleLists == {{"owner"}, {"client"}, {"client", "owner"}}

\* resolver classes that declare guards on me and updateUser in other ways:
\* with and without AuthGuard before RoleGuard, with lists of their own
Resolvers ==
    [me : {<<Guard("AuthGuard", {}), Guard("EnvGuard", e), Guard("RoleGuard", ro)>> :
              e \in EnvLists, ro \in RoleLists}
          \cup {<<Guard("AuthGuard", {}), Guard("RoleGuard", ro)>> : ro \in RoleLists}
          \cup {<<Guard("RoleGuard", ro)>> : ro \in RoleLists},
     updateUser : {<<Guard("AuthGuard", {}), Guard("EnvGuard", e)>> : e \in EnvLists}
          \cup {<<Guard("AuthGuard", {}), Guard("RoleGuard", ro)>> : ro \in RoleLists}]

GuardInit == InitStore /\ \E d \in Resolvers : Loaded(d)

----------------------------------------------------------------------------
(* Request authenticator: JwtMiddleware.use *)

\* mutant: verifyEmail is missing from the list of exempt operations
use_VerifyEmailNotExempt(r) ==
    IF r.op = "IntrospectionQuery" THEN next(r)
    ELSE IF r.op \in {"createUser", "loginUser"} THEN next(r)
    ELSE IF ~r.hdr.present THEN Rejected(r, ErrUnauthorized)
    ELSE IF verifyThrows(r.hdr.token) THEN Rejected(r, ErrJwt)
    ELSE IF decodedHasId(r.hdr.token) THEN [r EXCEPT !.pc = "getOne"]
    ELSE next(r)

\* mutant: a header that is present is examined on every operation
use_HeaderFirst(r) ==
    IF r.op = "IntrospectionQuery" THEN next(r)
    ELSE IF ~r.hdr.present THEN
        (IF r.op \in {"createUser", "loginUser", "verifyEmail"} THEN next(r)
         ELSE Rejected(r, ErrUnauthorized))
    ELSE IF verifyThrows(r.hdr.token) THEN Rejected(r, ErrJwt)
    ELSE IF decodedHasId(r.hdr.token) THEN [r EXCEPT !.pc = "getOne"]
    ELSE next(r)

\* the part of use() that runs before its first await
use(r) ==
    IF r.op = "IntrospectionQuery" THEN next(r)
    ELSE IF r.op \in {"createUser", "loginUser", "verifyEmail"} THEN next(r)
    ELSE IF ~r.hdr.present THEN Rejected(r, ErrUnauthorized)
    ELSE IF verifyThrows(r.hdr.token) THEN Rejected(r, ErrJwt)
    ELSE IF decodedHasId(r.hdr.token) THEN [r EXCEPT !.pc = "getOne"]
    ELSE next(r)

\* one of the requests rs arrives and the middleware runs up to its first
\* await
Arrives(rs) ==
    /\ \E r \in rs :
         req' = req (+) SetToBag({
                  use([r EXCEPT !.late =
                         \/ (r.op = "createUser" /\ r.email \in registered)
                         \/ (r.op = "verifyEmail" /\ r.code \in consumed)
                         \/ (r.op = "loginUser" /\ r.email \in registered)
                         \/ (/\ r.op \notin ExemptOps
                             /\ r.hdr.present
                             /\ \E k \in DOMAIN users : r.hdr.token = sign(k))])})
    /\ UNCHANGED <<users, verifs, nextId, nextCode, registered, consumed, statics>>

Receive ==
    /\ BagCardinality(req) < MaxReq
    /\ Arrives(Incoming)

\* the requests tried on the other resolver classes: a registration of a
\* client, and the guarded operations called by an owner, by the user
\* registered, and with a token that names no user
GuardIncoming ==
    {[Blank EXCEPT !.op = "createUser", !.email = EmailNew, !.password = Pw1,
                   !.role = "client"]}
    \cup
    {[Blank EXCEPT !.op = o, !.hdr = Bearer(t)] :
        o \in {"me", "updateUser"},
        t \in {sign(1), sign(3),
                [kind |-> "jwt", key |-> SecretKey, hasId |-> FALSE, id |-> 0]}}

GuardReceive ==
    /\ BagCardinality(req) < MaxGuardReq
    /\ Arrives(GuardIncoming)

\* mutant: the user found is kept where every request sees it, so it is
\* attached as well to a request still waiting for its own lookup
MwGetOne_Shared(r) ==
    /\ r.pc = "getOne"
    /\ \/ \E x \in ById(r.hdr.token.id) :
            LET r2 == next([r EXCEPT !.user = x, !.auth = "hit"])
                waiting == {q \in Reqs \ {r} : q.pc = "getOne"}
            IN  \/ /\ waiting = {}
                   /\ req' = Put(r, r2)
                \/ \E q \in waiting :
                      req' = ((Put(r, r2) (-) SetToBag({q}))
                              (+) SetToBag({next([q EXCEPT !.user = x,
                                                           !.auth = "hit"])}))
       \/ /\ ById(r.hdr.token.id) = {}
          /\ req' = Put(r, Rejected([r EXCEPT !.auth = "miss"], ErrUnauthorized))
       \/ req' = Put(r, Rejected([r EXCEPT !.auth = "fault", !.fault = TRUE],
                                 ErrUnauthorized))
    /\ UNCHANGED <<users, verifs, nextId, nextCode, registered, consumed, statics>>

\* await usersService.getOne({id}) resolves (req['user'] = user; next())
\* or rejects
MwGetOne(r) ==
    /\ r.pc = "getOne"
    /\ \/ \E x \in ById(r.hdr.token.id) :
            req' = Put(r, next([r EXCEPT !.user = x, !.auth = "hit"]))
       \/ /\ ById(r.hdr.token.id) = {}
          /\ req' = Put(r, Rejected([r EXCEPT !.auth = "miss"], ErrUnauthorized))
       \/ req' = Put(r, Rejected([r EXCEPT !.auth = "fault", !.fault = TRUE],
                                 ErrUnauthorized))
    /\ UNCHANGED <<users, verifs, nextId, nextCode, registered, consumed, statics>>

----------------------------------------------------------------------------
(* UsersService.getAll *)

\* return this.usersRepository.find({})
GetAll(r) ==
    /\ r.pc = "ga_find"
    /\ \/ req' = Put(r, Returned(r, TRUE, NoVal, NoToken))
       \/ req' = Put(r, Threw([r EXCEPT !.fault = TRUE], ErrStorage))
    /\ UNCHANGED <<users, verifs, nextId, nextCode, registered, consumed, statics>>

----------------------------------------------------------------------------
(* UsersService.createUser *)

\* what the catch block returns for a storage step that rejected
Caught(r) == Returned([r EXCEPT !.fault = TRUE], FALSE, ErrStorage, NoToken)

\* mutant: the lookup's result is not checked
createUserFound_Unchecked(r, x) == [r EXCEPT !.pc = "cu_save"]

\* the outcome of the lookup by email: x is the row found, NoUser if none
createUserFound(r, x) ==
    IF x.id # 0 THEN Returned([r EXCEPT !.u = x], FALSE, ErrDuplicate, NoToken)
    ELSE [r EXCEPT !.pc = "cu_save"]

\* await usersRepository.findOne({email}), if (userInDb) throw
CuFind(r) ==
    /\ r.pc = "cu_find"
    /\ \/ \E x \in ByEmail(r.email) :
            req' = Put(r, createUserFound([r EXCEPT !.seen = Matches(r.email)], x))
       \/ /\ ByEmail(r.email) = {}
          /\ req' = Put(r, createUserFound(r, NoUser))
       \/ req' = Put(r, Caught(r))
    /\ UNCHANGED <<users, verifs, nextId, nextCode, registered, consumed, statics>>

\* mutant: the insert stores the password as it came
newUser_Plaintext(r, id) ==
    [id |-> id, email |-> r.email, password |-> Plain(r.password),
     role |-> r.role, verified |-> FALSE]

\* usersRepository.create(newUserDto) as the insert stores it:
\* @BeforeInsert hashes the password, verified takes the column default
newUser(r, id) ==
    [id |-> id, email |-> r.email, password |-> hashPassword(Plain(r.password)),
     role |-> r.role, verified |-> FALSE]

\* await usersRepository.save(newUser)
CuSaveUser(r) ==
    /\ r.pc = "cu_save"
    /\ \/ /\ users' = users @@ (nextId :> newUser(r, nextId))
          /\ nextId' = nextId + 1
          /\ req' = Put(r, [r EXCEPT !.u = newUser(r, nextId), !.uid = nextId,
                                     !.wrote = TRUE, !.pc = "cu_verif"])
       \/ /\ req' = Put(r, Caught(r))
          /\ UNCHANGED <<users, nextId>>
    /\ UNCHANGED <<verifs, nextCode, registered, consumed, statics>>

\* mutant: the verification record is saved without its user, the link
\* falling on the first user
CuSaveVerification_Unlinked(r) ==
    /\ r.pc = "cu_verif"
    /\ \/ /\ verifs' = verifs \cup {[code |-> nextCode, user |-> 1]}
          /\ nextCode' = nextCode + 1
          /\ req' = Put(r, Returned([r EXCEPT !.vcode = nextCode],
                                    TRUE, NoVal, NoToken))
          /\ registered' = registered \cup {r.email}
       \/ /\ req' = Put(r, Caught(r))
          /\ UNCHANGED <<verifs, nextCode, registered>>
    /\ UNCHANGED <<users, nextId, consumed, statics>>

\* await verificationRepository.save(verification); return [true]
CuSaveVerification(r) ==
    /\ r.pc = "cu_verif"
    /\ \/ /\ verifs' = verifs \cup {[code |-> nextCode, user |-> r.u.id]}
          /\ nextCode' = nextCode + 1
          /\ req' = Put(r, Returned([r EXCEPT !.vcode = nextCode],
                                    TRUE, NoVal, NoToken))
          /\ registered' = registered \cup {r.email}
       \/ /\ req' = Put(r, Caught(r))
          /\ UNCHANGED <<verifs, nextCode, registered>>
    /\ UNCHANGED <<users, nextId, consumed, statics>>

----------------------------------------------------------------------------
(* UsersService.loginUser *)

\* the body after findOneOrFail: x is the row found, NoUser if it rejected
\* with EntityNotFound
loginUser(r, x) ==
    IF x.id = 0 THEN Returned(r, FALSE, ErrNotFound, NoToken)
    ELSE IF ~validatePassword(r.password, x.password)
         THEN Returned([r EXCEPT !.u = x], FALSE, ErrCredentials, NoToken)
    ELSE Returned([r EXCEPT !.u = x], TRUE, NoVal, sign(x.id))

\* findOneOrFail({email}), validatePassword, sign: only the find reads the
\* tables, the rest works on the row it returned
LgFind(r) ==
    /\ r.pc = "lg_find"
    /\ \/ \E x \in ByEmail(r.email) :
            req' = Put(r, loginUser([r EXCEPT !.seen = Matches(r.email)], x))
       \/ /\ ByEmail(r.email) = {}
          /\ req' = Put(r, loginUser(r, NoUser))
       \/ req' = Put(r, Caught(r))
    /\ UNCHANGED <<users, verifs, nextId, nextCode, registered, consumed, statics>>

----------------------------------------------------------------------------
(* Saving a loaded entity *)

\* the row is locked by an UPDATE waiting in an open transaction
Locked(id) ==
    \E q \in Reqs : q.tx.state = "open" /\ q.tx.save.id = id

\* save(entity) of a loaded User: typeorm compares the entity with the row;
\* when they differ @BeforeUpdate hashes the password field again and the
\* row becomes the entity; when they are equal nothing is written (NoUser)
saved(e) ==
    IF e.id \in DOMAIN users /\ users[e.id] = e THEN NoUser
    ELSE [e EXCEPT !.password = hashPassword(@)]

----------------------------------------------------------------------------
(* UsersService.updateUser *)

\* Object.keys(updateUserDto).forEach(key => userInDb[key] = dto[key])
applyDto(x, r) ==
    [x EXCEPT !.email = IF r.email # NoVal THEN r.email ELSE @,
              !.password = IF r.password # NoVal THEN Plain(r.password) ELSE @,
              !.role = IF r.role # NoVal THEN r.role ELSE @]

\* await usersRepository.findOneOrFail({email: authUser.email})
UpFind(r) ==
    /\ r.pc = "up_find"
    /\ \/ \E x \in ByEmail(r.user.email) :
            req' = Put(r, [r EXCEPT !.u = applyDto(x, r), !.pc = "up_save",
                                    !.seen = Matches(r.user.email)])
       \/ /\ ByEmail(r.user.email) = {}
          /\ req' = Put(r, Returned(r, FALSE, ErrNotFound, NoToken))
       \/ req' = Put(r, Caught(r))
    /\ UNCHANGED <<users, verifs, nextId, nextCode, registered, consumed, statics>>

\* await usersRepository.save(userInDb); return [true]
UpSave(r) ==
    /\ r.pc = "up_save"
    /\ \/ /\ ~Locked(r.u.id)
          /\ users' = IF saved(r.u).id = 0 THEN users
                      ELSE [users EXCEPT ![r.u.id] = saved(r.u)]
          /\ req' = Put(r, Returned([r EXCEPT !.wrote = (saved(r.u).id # 0)],
                                    TRUE, NoVal, NoToken))
       \/ /\ req' = Put(r, Caught(r))
          /\ UNCHANGED users
    /\ UNCHANGED <<verifs, nextId, nextCode, registered, consumed, statics>>

----------------------------------------------------------------------------
(* UsersService.verifyEmail *)

\* the outer catch: return [false, e.message]; the transaction started
\* before the try stays as it is
OuterCaught(r, error) == Returned(r, FALSE, error, NoToken)

\* the inner catch and finally: rollbackTransaction, release,
\* return [false, e.message]
InnerCaught(r) ==
    Returned([r EXCEPT !.fault = TRUE,
                       !.tx = [state |-> "rolledback", save |-> NoUser,
                               del |-> FALSE, released |-> TRUE]],
             FALSE, ErrStorage, NoToken)

\* createQueryRunner, connect, startTransaction (outside the try), then
\* await verificationRepository.findOneOrFail({code}, {relations: ['user']})
VeFind(r) ==
    /\ r.pc = "ve_find"
    /\ \/ \E v \in ByCode(r.code) :
            req' = Put(r, [r EXCEPT !.tx.state = "open", !.vuid = v.user,
                                    !.seen = Cardinality({w \in verifs :
                                                            w.code = r.code}),
                                    !.pc = "ve_user"])
       \/ /\ ByCode(r.code) = {}
          /\ req' = Put(r, OuterCaught([r EXCEPT !.tx.state = "open"],
                                       ErrNotFound))
       \/ req' = Put(r, OuterCaught([r EXCEPT !.tx.state = "open",
                                              !.fault = TRUE], ErrStorage))
       \/ req' = Put(r, Threw([r EXCEPT !.fault = TRUE], ErrStorage))
    /\ UNCHANGED <<users, verifs, nextId, nextCode, registered, consumed, statics>>

\* await usersRepository.findOneOrFail({id: verificationRecord.user.id});
\* userInDb.verified = true
VeFindUser(r) ==
    /\ r.pc = "ve_user"
    /\ \/ \E x \in ById(r.vuid) :
            req' = Put(r, [r EXCEPT !.u = [x EXCEPT !.verified = TRUE],
                                    !.pc = "ve_save"])
       \/ /\ ById(r.vuid) = {}
          /\ req' = Put(r, OuterCaught(r, ErrNotFound))
       \/ req' = Put(r, OuterCaught([r EXCEPT !.fault = TRUE], ErrStorage))
    /\ UNCHANGED <<users, verifs, nextId, nextCode, registered, consumed, statics>>

\* mutant: the user is saved through the repository, outside the transaction
VeSave_Repository(r) ==
    /\ r.pc = "ve_save"
    /\ \/ /\ ~Locked(r.u.id)
          /\ users' = IF saved(r.u).id = 0 THEN users
                      ELSE [users EXCEPT ![r.u.id] = saved(r.u)]
          /\ req' = Put(r, [r EXCEPT !.pc = "ve_delete"])
       \/ /\ req' = Put(r, InnerCaught(r))
          /\ UNCHANGED users
    /\ UNCHANGED <<verifs, nextId, nextCode, registered, consumed, statics>>

\* await queryRunner.manager.save<User>(userInDb): the update waits in the
\* transaction of the query runner
VeSave(r) ==
    /\ r.pc = "ve_save"
    /\ \/ /\ ~Locked(r.u.id)
          /\ req' = Put(r, [r EXCEPT !.tx.save = saved(r.u), !.pc = "ve_delete"])
       \/ req' = Put(r, InnerCaught(r))
    /\ UNCHANGED <<users, verifs, nextId, nextCode, registered, consumed, statics>>

\* await queryRunner.manager.delete(Verification, {code})
VeDelete(r) ==
    /\ r.pc = "ve_delete"
    /\ \/ /\ \A q \in Reqs : ~(q.tx.state = "open" /\ q.tx.del /\ q.code = r.code)
          /\ req' = Put(r, [r EXCEPT !.tx.del = TRUE, !.pc = "ve_commit"])
       \/ req' = Put(r, InnerCaught(r))
    /\ UNCHANGED <<users, verifs, nextId, nextCode, registered, consumed, statics>>

\* the tables after the commit of transaction t of a request for code c
committedUsers(t) ==
    IF t.save.id = 0 THEN users ELSE [users EXCEPT ![t.save.id] = t.save]

\* mutant: the commit leaves the verification record in place
committedVerifs_Kept(t, c) == verifs

committedVerifs(t, c) ==
    IF t.del THEN verifs \ ByCode(c) ELSE verifs

\* await queryRunner.commitTransaction(); return [true]; finally release
VeCommit(r) ==
    /\ r.pc = "ve_commit"
    /\ \/ /\ users' = committedUsers(r.tx)
          /\ verifs' = committedVerifs(r.tx, r.code)
          /\ req' = Put(r, Returned(
                       [r EXCEPT !.tx = [state |-> "committed", save |-> NoUser,
                                         del |-> FALSE, released |-> TRUE],
                                 !.wrote = (users' # users \/ verifs' # verifs)],
                       TRUE, NoVal, NoToken))
          /\ consumed' = consumed \cup {r.code}
       \/ /\ req' = Put(r, InnerCaught(r))
          /\ UNCHANGED <<users, verifs, consumed>>
    /\ UNCHANGED <<nextId, nextCode, registered, statics>>

----------------------------------------------------------------------------
(* The server *)

Next ==
    \/ Receive
    \/ \E r \in Reqs : MwGetOne(r)
    \/ \E r \in Reqs : GetAll(r)
    \/ \E r \in Reqs : CuFind(r)
    \/ \E r \in Reqs : CuSaveUser(r)
    \/ \E r \in Reqs : CuSaveVerification(r)
    \/ \E r \in Reqs : LgFind(r)
    \/ \E r \in Reqs : UpFind(r)
    \/ \E r \in Reqs : UpSave(r)
    \/ \E r \in Reqs : VeFind(r)
    \/ \E r \in Reqs : VeFindUser(r)
    \/ \E r \in Reqs : VeSave(r)
    \/ \E r \in Reqs : VeDelete(r)
    \/ \E r \in Reqs : VeCommit(r)

Spec == Init /\ [][Next]_vars

\* the server with a resolver class out of Resolvers, serving the requests
\* that reach the guards
GuardNext ==
    \/ GuardReceive
    \/ \E r \in Reqs : MwGetOne(r)
    \/ \E r \in Reqs : CuFind(r)
    \/ \E r \in Reqs : CuSaveUser(r)
    \/ \E r \in Reqs : CuSaveVerification(r)

GuardSpec == GuardInit /\ [][GuardNext]_vars

----------------------------------------------------------------------------
(* Properties *)

\* the requests that have ended
Done == {r \in Reqs : r.pc = "done"}

\* two different requests of the bag
Distinct(r1, r2) == r1 # r2 \/ CopiesIn(r1, req) > 1

\* r answered a result [false, error] and changed no stored record
Refused(r) ==
    /\ r.out = "returned"
    /\ ~r.ok
    /\ r.error # NoVal
    /\ r.token = NoToken
    /\ ~r.wrote

\* the createUser requests that stored a user with email e
Creators(e) == {q \in Reqs : q.op = "createUser" /\ q.email = e /\ q.uid # 0}

\* C1: a createUser whose lookup finds its email already stored (the state
\* an earlier successful createUser of that email leaves) answers
\* [false, 'Email already registered'] and writes nothing: no user and no
\* verification record comes from it; when it arrived after the one
\* createUser that stored the email, and no updateUser has written an
\* email, one user carries the email.
C1_DuplicateEmailRefused ==
    \A r \in Done :
        (r.op = "createUser" /\ ~r.fault /\ r.seen > 0) =>
            /\ Refused(r)
            /\ r.error = ErrDuplicate
            /\ r.uid = 0
            /\ r.vcode = 0
            /\ (/\ r.late
                /\ Cardinality(Creators(r.email)) = 1
                /\ \A q \in Reqs :
                      (q.op = "updateUser" /\ q.wrote) => q.email = NoVal) =>
                   Matches(r.email) = 1

\* a createUser arrived after another one had succeeded on the same email,
\* was refused, and one user carries the email
C1_Witness ==
    \E r \in Done :
        /\ r.op = "createUser" /\ r.late /\ r.seen = 1
        /\ r.error = ErrDuplicate
        /\ Matches(r.email) = 1

\* C2: no two users created by createUser requests carry the same email,
\* however the steps of the requests interleave.
C2_EmailUniqueUnderInterleaving ==
    \A r1, r2 \in Reqs :
        (/\ r1.op = "createUser" /\ r2.op = "createUser"
         /\ r1.uid # 0 /\ r2.uid # 0 /\ r1.uid # r2.uid) =>
            users[r1.uid].email # users[r2.uid].email

\* C3: once createUser has returned, a user it stored has the verification
\* record it was to be paired with: both writes happened or neither.
C3_CreateAllOrNothing ==
    \A r \in Done :
        (r.op = "createUser" /\ r.uid \in DOMAIN users) => r.vcode # 0

\* the request r of the bag takes this step
Moves(r) == CopiesIn(r, req') < CopiesIn(r, req)

\* C4, the steps: a step of a verifyEmail request either leaves the two
\* tables as they are, or leaves the user verified and no record with the
\* code, both at once.
C4_StepAtomic ==
    \A r \in Reqs :
        (r.op = "verifyEmail" /\ Moves(r)) =>
            \/ (users' = users /\ verifs' = verifs)
            \/ /\ r.u.id \in DOMAIN users'
               /\ users'[r.u.id].verified
               /\ \A v \in verifs' : v.code # r.code

\* C4, the failures: a verifyEmail whose save, delete or commit failed has
\* rolled the transaction back, answered ok=false and changed no record.
C4_FailureRollsBack ==
    \A r \in Done :
        (r.op = "verifyEmail" /\ r.fault /\ r.u.id # 0) =>
            /\ r.tx.state = "rolledback"
            /\ Refused(r)

\* C4: verifyEmail is atomic over the User and the Verification record.
C4_VerifyEmailAtomic == [][C4_StepAtomic]_vars /\ []C4_FailureRollsBack

\* a verifyEmail committed both changes, and another one was rolled back
\* after its save had been issued
C4_Witness ==
    /\ \E r \in Done :
         /\ r.op = "verifyEmail" /\ r.tx.state = "committed" /\ r.wrote
         /\ users[r.u.id].verified
         /\ ByCode(r.code) = {}
    /\ \E r \in Done :
         r.op = "verifyEmail" /\ r.tx.state = "rolledback" /\ r.u.id # 0

\* C5: a verifyEmail that arrives after a verifyEmail of the same code
\* returned ok=true does not succeed and changes no record.
C5_CodeSingleUse ==
    \A r \in Done :
        (r.op = "verifyEmail" /\ r.late) =>
            /\ ~r.ok
            /\ ~r.wrote
            /\ (r.out = "returned" => r.error # NoVal)

\* a second verifyEmail of a used code has been refused
C5_Witness ==
    \E r \in Done : r.op = "verifyEmail" /\ r.late /\ Refused(r)

\* C6: a verifyEmail whose code matches no verification record answers
\* ok=false with an error and changes no user and no verification record.
C6_UnknownCodeRefused ==
    \A r \in Done :
        (r.op = "verifyEmail" /\ ~r.fault /\ r.seen = 0) => Refused(r)

\* a never generated code has been refused while a seeded record is there
C6_Witness ==
    \E r \in Done :
        /\ r.op = "verifyEmail" /\ r.code = 0 /\ Refused(r)
        /\ verifs # {}

\* C7: loginUser answers ok=true exactly when its lookup returned a user of
\* that email whose stored hash is the bcrypt hash of the password given;
\* the token is then the signature over that user's id; otherwise it
\* answers ok=false, an error and no token.
C7_LoginCorrect ==
    \A r \in Done :
        (r.op = "loginUser" /\ ~r.fault) =>
            /\ r.out = "returned"
            /\ r.ok <=> /\ r.seen > 0
                        /\ r.u.email = r.email
                        /\ r.u.password = [plain |-> r.password, n |-> 1]
            /\ r.ok => /\ r.token = [kind |-> "jwt", key |-> SecretKey,
                                     hasId |-> TRUE, id |-> r.u.id]
                       /\ r.u.id \in DOMAIN users
                       /\ r.error = NoVal
            /\ ~r.ok => Refused(r)

\* one login succeeded with a token, another failed on the password
C7_Witness ==
    /\ \E r \in Done : r.op = "loginUser" /\ r.ok /\ r.token = sign(r.u.id)
    /\ \E r \in Done : r.op = "loginUser" /\ ~r.ok /\ r.error = ErrCredentials

\* C8: a login with an email of no user and a login with a stored email
\* and a wrong password get the same answer.
C8_LoginEnumerationSafe ==
    \A r1, r2 \in Done :
        (/\ r1.op = "loginUser" /\ r2.op = "loginUser"
         /\ ~r1.fault /\ ~r2.fault
         /\ r1.seen = 0
         /\ r2.seen > 0 /\ ~r2.ok) =>
            <<r1.out, r1.ok, r1.error, r1.token>>
                = <<r2.out, r2.ok, r2.error, r2.token>>

BadToken(t) == t.kind # "jwt" \/ t.key # SecretKey

\* C10: when the middleware checks a token and the verification fails, or
\* the lookup of the user of the token finds nobody or fails, the request
\* is rejected: next() is not called, no resolver runs, no user is attached.
C10_BadTokenRejected ==
    \A r \in Reqs :
        (/\ r.op \notin ExemptOps /\ r.hdr.present
         /\ (BadToken(r.hdr.token) \/ r.auth \in {"miss", "fault"})) =>
            /\ r.pc = "done" /\ r.out = "rejected"
            /\ ~r.nexted
            /\ r.user.id = 0
            /\ ~r.wrote

\* a token signed with another secret and a token of a user that does not
\* exist have each been rejected
C10_Witness ==
    /\ \E r \in Done : r.hdr.present /\ r.hdr.token.key = OtherKey
                        /\ r.op = "me" /\ r.out = "rejected"
    /\ \E r \in Done : r.auth = "miss" /\ r.out = "rejected"

\* C11: a request with a user attached carried a bearer token that verifies
\* under the configured secret, the id claim of the token is the id of the
\* attached user, and the lookup of the middleware found that user stored.
C11_AttachedUserAuthentic ==
    \A r \in Reqs :
        r.user.id # 0 =>
            /\ r.op \notin ExemptOps
            /\ r.hdr.present
            /\ r.hdr.token.kind = "jwt" /\ r.hdr.token.key = SecretKey
            /\ r.hdr.token.hasId /\ r.hdr.token.id = r.user.id
            /\ r.auth = "hit"
            /\ r.user.id \in DOMAIN users

\* a "me" query answered with the user of its token attached
C11_Witness ==
    \E r \in Done :
        /\ r.op = "me" /\ r.out = "returned" /\ r.ok
        /\ r.user.id = 1 /\ r.hdr = Bearer(sign(1))

\* C12: the token of a successful loginUser is the signature over the id of
\* the user; a request of a non-exempt operation that arrives with the
\* token of a user stored by then, and whose lookup does not fail, has
\* exactly that user attached and goes on to the guards, whatever
\* happened to the record before (password change, verification).
C12_TokenNeverRevoked ==
    /\ \A l \in Done :
          (l.op = "loginUser" /\ l.ok) =>
              l.token = [kind |-> "jwt", key |-> SecretKey, hasId |-> TRUE,
                         id |-> l.u.id]
    /\ \A r \in Reqs :
          (r.late /\ r.op \notin ExemptOps /\ r.pc # "getOne"
                  /\ r.auth # "fault") =>
              /\ r.auth = "hit"
              /\ r.nexted
              /\ r.user.id = r.hdr.token.id
              /\ r.user.email \in {Email1, Email2, EmailNew}

\* an updateUser changed the password of user 1, and a "me" query that
\* came with the same token afterwards got user 1 attached, with the new
\* password hash
C12_Witness ==
    /\ \E q \in Done :
          /\ q.op = "updateUser" /\ q.password = Pw2 /\ q.ok /\ q.wrote
          /\ q.hdr = Bearer(sign(1))
    /\ \E r \in Done :
          /\ r.op = "me" /\ r.hdr = Bearer(sign(1)) /\ r.auth = "hit"
          /\ r.user.id = 1 /\ r.user.password.plain = Pw2

\* the resolver of r was started
Ran(r) == r.log # <<>> /\ r.log[Len(r.log)].step = "resolver"

\* the guards evaluated for r, in the order of their evaluation
GuardSteps(r) ==
    SelectSeq(r.log, LAMBDA e : e.step \notin {"next", "resolver"})

\* C13: a request of an exempt operation goes through to its resolver with
\* no user attached and without any lookup of the middleware, whether its
\* authorization header is absent, holds an invalid token or a valid one.
C13_ExemptNeverInspected ==
    \A r \in Reqs :
        r.op \in ExemptOps =>
            /\ r.nexted
            /\ r.user.id = 0
            /\ r.auth = "none"
            /\ r.out # "rejected"
            /\ Ran(r)

\* a createUser with the token of user 1 stored a user, and a loginUser
\* with a token that is no JWT logged in, both with no user attached
C13_Witness ==
    /\ \E r \in Done :
          /\ r.op = "createUser" /\ r.hdr = Bearer(sign(1))
          /\ r.ok /\ r.uid # 0 /\ r.user.id = 0
    /\ \E r \in Done :
          /\ r.op = "loginUser" /\ r.hdr.present /\ r.hdr.token.kind = "junk"
          /\ r.ok /\ r.user.id = 0

\* C14: in one request nothing runs while the middleware has not called
\* next(); after it, the guards of the operation are evaluated in their
\* declared order, and the resolver is started last, after every guard of
\* the operation has passed; a handler that is at work has its resolver
\* started.
C14_PipelineOrder ==
    \A r \in Reqs :
        /\ ~r.nexted => r.log = <<>>
        /\ r.pc = "getOne" => ~r.nexted
        /\ r.nexted =>
              /\ r.log # <<>>
              /\ r.log[1].step = "next"
              /\ \A i \in 2..Len(r.log) :
                    /\ r.log[i].step # "next"
                    /\ r.log[i].step = "resolver" =>
                          /\ i = Len(r.log)
                          /\ i = Len(GuardsOf(r.op)) + 2
                          /\ \A j \in 2..(i - 1) :
                                /\ r.log[j].step = GuardsOf(r.op)[j - 1]
                                /\ r.log[j].result = "pass"
        /\ (r.pc \notin {"new", "getOne", "done"} \/ r.out \in {"returned", "threw"})
              => Ran(r)

\* a "me" query ran its resolver after next() and its three guards, and an
\* updateUser was stopped at its first guard
C14_Witness ==
    /\ \E r \in Done :
          /\ r.op = "me" /\ Len(r.log) = 5 /\ Ran(r)
          /\ r.log[2].step = "AuthGuard" /\ r.log[4].step = "RoleGuard"
    /\ \E r \in Done :
          /\ r.op = "updateUser" /\ Len(r.log) = 2
          /\ r.log[2] = [step |-> "AuthGuard", result |-> "deny"]

C16_RoleGuardFailsClosed ==
    \A r \in Reqs :
        r.nexted =>
            /\ \A i \in 1..Len(r.log) :
                  r.log[i].step = "RoleGuard" =>
                      (r.log[i].result = "pass" <=>
                          (r.user.id # 0 /\ r.user.role \in allowedRoles))
            /\ (r.user.id = 0
                  /\ \E i \in 1..Len(GuardsOf(r.op)) :
                        GuardsOf(r.op)[i] = "RoleGuard") =>
                   /\ ~Ran(r)
                   /\ r.pc = "done" /\ r.out = "rejected"
                   /\ r.error \in {ErrForbidden, ErrTypeError}
                   /\ ~r.wrote

\* without user: a "me" guarded by RoleGuard alone ended in the exception
\* of RoleGuard, and an updateUser guarded by AuthGuard and RoleGuard was
\* denied by AuthGuard
C16_Witness ==
    /\ \E r \in Done :
          /\ r.op = "me" /\ r.user.id = 0 /\ r.out = "rejected"
          /\ r.log = <<[step |-> "next", result |-> NoVal],
                        [step |-> "RoleGuard", result |-> "throw"]>>
    /\ \E r \in Done :
          /\ r.op = "updateUser" /\ r.user.id = 0 /\ r.out = "rejected"
          /\ GuardsOf(r.op) = <<"AuthGuard", "RoleGuard">>
          /\ r.log[Len(r.log)] = [step |-> "AuthGuard", result |-> "deny"]

\* the list declared for guard g on operation op
RECURSIVE DeclaredList(_, _)
DeclaredList(ds, g) ==
    IF ds = <<>> THEN {}
    ELSE IF Head(ds).g = g THEN Head(ds).list
    ELSE DeclaredList(Tail(ds), g)

\* C17: each operation is checked against the allow-lists declared on it:
\* its EnvGuard passes exactly when NODE_ENV is in the list declared on the
\* operation, its RoleGuard exactly when the role of the attached user is
\* in the list declared on the operation.
C17_AllowListPerOperation ==
    \A r \in Reqs :
        \A i \in 1..Len(r.log) :
            /\ r.log[i].step = "EnvGuard" =>
                  (r.log[i].result = "pass" <=>
                      NodeEnv \in DeclaredList(decl[r.op], "EnvGuard"))
            /\ r.log[i].step = "RoleGuard" =>
                  (r.log[i].result = "pass" <=>
                      /\ r.user.id # 0
                      /\ r.user.role \in DeclaredList(decl[r.op], "RoleGuard"))

\* the record x with exactly the fields given to updateUser request r
\* overwritten, a given password by its hash
Overwritten(x, r) ==
    [x EXCEPT !.email = IF r.email # NoVal THEN r.email ELSE @,
              !.password = IF r.password # NoVal
                           THEN [plain |-> r.password, n |-> 1] ELSE @,
              !.role = IF r.role # NoVal THEN r.role ELSE @]

\* the step ends a request with ok=true
EndsOk ==
    \E q \in BagToSet(req') :
        CopiesIn(q, req') > CopiesIn(q, req) /\ q.pc = "done" /\ q.ok

\* C18, the save: the save of an updateUser that returns ok=true leaves the
\* stored record with exactly the given fields overwritten and every other
\* record as it was; one that returns ok=false leaves the tables alone.
C18_SaveFrame ==
    \A r \in Reqs :
        (r.op = "updateUser" /\ r.pc = "up_save" /\ Moves(r)) =>
            /\ verifs' = verifs
            /\ IF EndsOk
               THEN users' = [users EXCEPT ![r.u.id] = Overwritten(@, r)]
               ELSE users' = users

\* C18, no match: an updateUser whose lookup finds no user for authUser
\* answers ok=false with an error and writes nothing.
C18_NoMatchRefused ==
    \A r \in Done :
        (r.op = "updateUser" /\ Ran(r) /\ ~r.fault /\ r.seen = 0) => Refused(r)

\* C18: updateUser refuses when no stored user matches authUser, and
\* otherwise overwrites exactly the given fields of the stored record.
C18_UpdateFrame == [][C18_SaveFrame]_vars /\ []C18_NoMatchRefused

\* C19: the save of an updateUser that was given no password leaves the
\* stored password hash of every user as it was.
C19_HashKeptWithoutPassword ==
    [][\A r \in Reqs :
          (r.op = "updateUser" /\ r.pc = "up_save" /\ Moves(r)
                /\ r.password = NoVal) =>
              \A k \in DOMAIN users : users'[k].password = users[k].password]_vars

\* C20: a loginUser that arrives after the one createUser that stored its
\* email returned ok=true, the record not written since, answers ok=true
\* with a token exactly when its password is the one registered.
C20_RegisterThenLogin ==
    \A c, l \in Done :
        (/\ c.op = "createUser" /\ c.ok
         /\ l.op = "loginUser" /\ l.late /\ l.email = c.email /\ ~l.fault
         /\ Cardinality(Creators(c.email)) = 1
         /\ \A q \in Reqs : q.op \in {"updateUser", "verifyEmail"} => ~q.wrote) =>
            /\ l.out = "returned"
            /\ l.u.id = c.uid
            /\ l.ok <=> l.password = c.password
            /\ l.ok => (l.token # NoToken /\ l.token.id = c.uid)
            /\ ~l.ok => (l.token = NoToken /\ l.error # NoVal)

\* after createUser('new@test.com', '123456') returned ok=true a login
\* with that password got the token of the new user
C20_Witness ==
    \E c, l \in Done :
        /\ c.op = "createUser" /\ c.ok /\ c.email = EmailNew /\ c.password = Pw1
        /\ l.op = "loginUser" /\ l.late /\ l.email = EmailNew /\ l.password = Pw1
        /\ l.ok /\ l.token = sign(c.uid)

\* C21: a createUser, loginUser, updateUser or verifyEmail whose resolver
\* ran and one of whose steps failed has returned a result with ok=false
\* and an error message: the fault did not leave the operation as an
\* exception.
C21_NoFaultEscapes ==
    \A r \in Done :
        (/\ r.op \in {"createUser", "loginUser", "updateUser", "verifyEmail"}
         /\ Ran(r) /\ r.fault) =>
            /\ r.out = "returned"
            /\ ~r.ok
            /\ r.error # NoVal

\* the verification records linked to user k
RecordsOf(k) == {v \in verifs : v.user = k}

\* C22: a createUser that returned ok=true has stored one verification
\* record, linked to the user it stored: it is the only record of that
\* user until a verifyEmail of its code removes it; and no user has more
\* than one verification record.
C22_OneVerificationPerUser ==
    /\ \A r \in Done :
          (r.op = "createUser" /\ r.ok) =>
              /\ r.uid \in DOMAIN users
              /\ r.vcode # 0
              /\ RecordsOf(r.uid) \subseteq {[code |-> r.vcode, user |-> r.uid]}
              /\ r.vcode \notin consumed => RecordsOf(r.uid) # {}
    /\ \A k \in DOMAIN users : Cardinality(RecordsOf(k)) <= 1

\* a createUser returned ok=true and its user has its one record, next to
\* the records of the seeded users
C22_Witness ==
    \E r \in Done :
        /\ r.op = "createUser" /\ r.ok
        /\ RecordsOf(r.uid) = {[code |-> r.vcode, user |-> r.uid]}
        /\ Cardinality(verifs) = 3

\* this step is the commit of a verifyEmail that returns ok=true, its code
\* the one of the verification record of user k
VerifiesNow(k) ==
    \E r \in Reqs :
        /\ r.op = "verifyEmail" /\ r.pc = "ve_commit" /\ Moves(r) /\ EndsOk
        /\ r.vuid = k

\* C23, the step: a user is stored unverified; its verified flag turns
\* true only in the commit of a successful verifyEmail of its own code, and
\* no step turns it back to false.
C23_VerifiedStep ==
    \A k \in DOMAIN users' :
        IF k \notin DOMAIN users THEN ~users'[k].verified
        ELSE /\ users[k].verified => users'[k].verified
             /\ (~users[k].verified /\ users'[k].verified) => VerifiesNow(k)

\* C23: verified is false from registration on, turns true only by a
\* successful verifyEmail of the user's own code, and never turns false
\* again.
C23_VerifiedOnlyByVerifyEmail == [][C23_VerifiedStep]_vars

\* C24, the await: when the lookup of the middleware ends for a request,
\* that request alone changes, every other request in flight keeping the
\* user it has or has not, and the user it gets is a stored user with the
\* id of its own token.
C24_AwaitOwnRequest ==
    \A r \in Reqs :
        (r.pc = "getOne" /\ Moves(r)) =>
            \E r2 \in BagToSet(req') :
                /\ req' = Put(r, r2)
                /\ r2.hdr = r.hdr
                /\ r2.user = NoUser \/ r2.user \in ById(r.hdr.token.id)

\* C24, the requests: a request without a header has no user, and two
\* requests with a user attached and different tokens have different users.
C24_UserPerRequest ==
    \A r1, r2 \in Reqs :
        /\ ~r1.hdr.present => r1.user = NoUser
        /\ (/\ r1.user # NoUser /\ r2.user # NoUser
            /\ r1.hdr.token # r2.hdr.token) => r1.user.id # r2.user.id

\* C24: the user of a request is the one of its own token, however the
\* lookups of the requests in flight interleave.
C24_RequestScoped == [][C24_AwaitOwnRequest]_vars /\ []C24_UserPerRequest

\* a request has the user of its token attached while a request with
\* another token, still waiting for its lookup, has none
C24_Witness ==
    \E r1, r2 \in Reqs :
        /\ r1.auth = "hit" /\ r1.user.id = r1.hdr.token.id
        /\ r2.pc = "getOne" /\ r2.hdr.token # r1.hdr.token
        /\ r2.user = NoUser

\* C25: the commit of a verifyEmail that returns ok=true leaves the stored
\* password hash of every user as it was, so that the password which
\* verified before the call verifies after it.
C25_VerifyKeepsCredentials ==
    [][\A r \in Reqs :
          (r.op = "verifyEmail" /\ r.pc = "ve_commit" /\ Moves(r) /\ EndsOk) =>
              \A k \in DOMAIN users :
                  /\ users'[k].password = users[k].password
                  /\ \A p \in Passwords :
                        validatePassword(p, users[k].password) =>
                            validatePassword(p, users'[k].password)]_vars

\* C26: a verifyEmail that has returned left no transaction open: the one
\* it started is committed or rolled back and its query runner released.
C26_TransactionClosed ==
    \A r \in Done :
        (r.op = "verifyEmail" /\ r.out = "returned" /\ r.tx.state # "none") =>
            /\ r.tx.state \in {"committed", "rolledback"}
            /\ r.tx.released

\* C27: the save of an updateUser keeps the emails unique: when no two
\* stored users share an email before it, none do after it.
C27_UpdateKeepsEmailUnique ==
    [][\A r \in Reqs :
          (/\ r.op = "updateUser" /\ r.pc = "up_save" /\ Moves(r)
           /\ \A j, k \in DOMAIN users :
                 j # k => users[j].email # users[k].email) =>
              \A j, k \in DOMAIN users' :
                  j # k => users'[j].email # users'[k].email]_vars

\* C28: the record an updateUser has written is the record of the user
\* attached to its request from the bearer token: their ids are equal.
C28_UpdateWritesOwnRecord ==
    \A r \in Reqs :
        (r.op = "updateUser" /\ r.wrote) =>
            /\ r.user.id = r.hdr.token.id
            /\ r.u.id = r.user.id

\* C29: of two verifyEmail requests with the same code at most one has
\* returned ok=true.
C29_OneVerifyPerCode ==
    \A r1, r2 \in Done :
        (/\ Distinct(r1, r2)
         /\ r1.op = "verifyEmail" /\ r2.op = "verifyEmail"
         /\ r1.code = r2.code) => ~(r1.ok /\ r2.ok)

\* C30: a request of a non-exempt operation that carries a bearer token is
\* not handed on by the middleware without a user: when next() was called
\* for it a user is attached, otherwise it was rejected.
C30_TokenNeverAnonymous ==
    \A r \in Reqs :
        (r.op \notin ExemptOps /\ r.hdr.present /\ r.pc # "getOne") =>
            \/ r.nexted /\ r.user # NoUser /\ r.auth = "hit"
            \/ ~r.nexted /\ r.out = "rejected"

====
